---- MODULE Spec2Model ----
(***************************************************************************)
(* Model of the crawl-and-ingest pipeline of documentation_qa.             *)
(*                                                                         *)
(* Part 1: URLExtractor (src/crawler/url_extractor.py), the frontier       *)
(* crawler: one asyncio event loop, `concurrency` worker tasks sharing an  *)
(* unbounded asyncio.Queue and three sets.  Under asyncio a coroutine runs *)
(* without interruption between two awaits that really suspend.  On an     *)
(* unbounded queue `await queue.put(..)` never suspends, and               *)
(* `await queue.get()` suspends only while the queue is empty, so the      *)
(* suspension points of a worker are: waiting in get() on an empty queue,  *)
(* and `await self._fetch_links(url)`.  Each action below is one such      *)
(* uninterrupted run.                                                      *)
(*                                                                         *)
(* Strings are sequences of one-character strings, so that str.lower(),    *)
(* the substring test, urlparse and urljoin are computed, not assumed.     *)
(***************************************************************************)
EXTENDS Integers, Sequences, FiniteSets, TLC

\* ---------------------------------------------------------------- bounds
\* largest max_depth handed to the constructor
MaxDepth == 2
\* largest concurrency handed to the constructor
MaxConcurrency == 2
\* number of extract_doc_urls calls made on one URLExtractor
MaxCalls == 2
\* largest max_depth handed to the constructor on the deeper site
DeepDepth == 4

\* the longest url list handed to crawl
MaxUrls == 3

\* the largest max_processes given to ParallelCrawler
MaxRequested == 3

\* the largest cpu_count() of a host
MaxCores == 2

\* the most tokens a text to split is made of
MaxTokens == 4

\* the largest chunk_size
MaxChunkSize == 6

\* the largest chunk_overlap
MaxOverlap == 5

\* the longest result list handed to the document builder
MaxResults == 2

\* the largest chunk_size and chunk_overlap given to create_chunks
MaxBuildChunk == 2
MaxBuildOverlap == 1

\* create_chunks: chunk_size: int = 1000, chunk_overlap: int = 200
DefaultChunkSize == 1000
DefaultChunkOverlap == 200

\* ------------------------------------------------------------- strings
Http == <<"h", "t", "t", "p", ":", "/", "/", "x">>
UA == Http \o <<"/", "a">>
UB == Http \o <<"/", "b">>
UD == Http \o <<"/", "D", "o", "c", "s">>
\* raw links as a page may hand them over: empty, absolute-path, relative
EmptyLink == <<>>
RelDocs == <<"/", "D", "o", "c", "s">>
RelB == <<"b">>

\* the pages of the site, and the link lists a page may carry
Pages == {UA, UB, UD}
LinkLists ==
    { <<>>,
      <<UB>>,
      <<UD, UD>>,
      <<EmptyLink, RelDocs>>,
      <<UA, RelB>> }

\* a deeper site: six pages, the seed's two links opening two branches
UC == Http \o <<"/", "c">>
UE == Http \o <<"/", "e">>
UF == Http \o <<"/", "f">>
\* a url that holds "doc" and is no page of the deep site
UN == Http \o <<"/", "d", "o", "c">>
DeepPages == {UA, UB, UC, UD, UE, UF}
DeepSites ==
    { [p \in DeepPages |->
          CASE p = UA -> <<UB, UD>>
            [] p = UB -> b
            [] p = UC -> c
            [] p = UD -> <<UF>>
            [] p = UE -> e
            [] p = UF -> f] :
      b \in {<<>>, <<UC>>}, c \in {<<UE>>, <<UF>>},
      e \in {<<>>, <<UA>>, <<UN>>}, f \in {<<>>, <<UE>>} }

\* str.lower() on the alphabet the links use
LowerChar(c) ==
    CASE c = "D" -> "d"
      [] c = "O" -> "o"
      [] c = "C" -> "c"
      [] OTHER -> c

Lower(s) == [i \in 1..Len(s) |-> LowerChar(s[i])]

\* `sub in s` for Python strings
Contains(s, sub) ==
    \E i \in 0..(Len(s) - Len(sub)) :
        \A k \in 1..Len(sub) : s[i + k] = sub[k]

\* 1-based index of the last c in s, 0 when absent (str.rfind)
LastIndexOf(s, c) ==
    IF \E i \in 1..Len(s) : s[i] = c
    THEN CHOOSE i \in 1..Len(s) : s[i] = c /\ \A k \in (i + 1)..Len(s) : s[k] # c
    ELSE 0

SchemeChars == {"h", "t", "p", "s"}

\* is s[1..i] a "scheme:" prefix, as urlsplit finds it
IsSchemeEnd(s, i) ==
    s[i] = ":" /\ \A k \in 1..(i - 1) : s[k] \in SchemeChars

\* urlsplit: length of "scheme:" at the head of s, 0 when s has no scheme
SchemeLen(s) ==
    IF \E i \in 2..Len(s) : IsSchemeEnd(s, i)
    THEN CHOOSE i \in 2..Len(s) : IsSchemeEnd(s, i)
    ELSE 0

\* the "scheme:" prefix of s
Scheme(s) == SubSeq(s, 1, SchemeLen(s))

\* urlsplit: does "//" introduce an authority after the scheme
HasAuthority(s) ==
    /\ Len(s) >= SchemeLen(s) + 2
    /\ s[SchemeLen(s) + 1] = "/"
    /\ s[SchemeLen(s) + 2] = "/"

\* _splitnetloc: index of the last character of the authority of s
NetlocEnd(s) ==
    IF \E j \in (SchemeLen(s) + 3)..Len(s) : s[j] = "/"
    THEN (CHOOSE j \in (SchemeLen(s) + 3)..Len(s) :
              s[j] = "/" /\ \A k \in (SchemeLen(s) + 3)..(j - 1) : s[k] # "/") - 1
    ELSE Len(s)

\* urlparse(s).netloc
Netloc(s) ==
    IF HasAuthority(s) THEN SubSeq(s, SchemeLen(s) + 3, NetlocEnd(s)) ELSE <<>>

\* urlparse(s).path (the links of the model carry no query or fragment)
Path(s) ==
    IF HasAuthority(s)
    THEN SubSeq(s, NetlocEnd(s) + 1, Len(s))
    ELSE SubSeq(s, SchemeLen(s) + 1, Len(s))

\* urllib.parse.urljoin(base, url) for a base with an authority and links
\* without dot segments: a url of another scheme or with an authority is
\* kept, an absolute path replaces the base path, a relative path replaces
\* the last segment of the base path, an empty url yields the base
UrlJoin(base, url) ==
    IF url = <<>> THEN base
    ELSE IF SchemeLen(url) > 0 /\ Scheme(url) # Scheme(base) THEN url
    ELSE IF HasAuthority(url)
    THEN Scheme(base) \o SubSeq(url, SchemeLen(url) + 1, Len(url))
    ELSE IF Path(url) = <<>> THEN base
    ELSE IF Head(Path(url)) = "/"
    THEN SubSeq(base, 1, NetlocEnd(base)) \o Path(url)
    ELSE IF Path(base) = <<>> THEN base \o <<"/">> \o Path(url)
    ELSE SubSeq(base, 1, LastIndexOf(base, "/")) \o Path(url)

\* ------------------------------------------------------- URLExtractor
VARIABLES
    max_depth,         \* self.max_depth
    concurrency,       \* self.concurrency
    web,               \* the site: page url -> the links the page carries
    doc_urls,          \* self.doc_urls
    visited_urls,      \* self.visited_urls
    queued_urls,       \* self.queued_urls
    queue,             \* self.queue: FIFO of <<url, depth>>
    unfinished_tasks,  \* self.queue._unfinished_tasks
    mpc,               \* where extract_doc_urls stands
    wpc,               \* where each worker task stands
    wjob,              \* the job a worker holds between get() and task_done()
    wcancel,           \* task.cancel() was requested for the worker
    result,            \* the value the last completed call returned
    calls,             \* number of extract_doc_urls calls started
    base,              \* base_url of the running call
    putLog,            \* history: every queue.put of the call, in order
    fetchLog,          \* history: every _fetch_links invocation, in order
    extractedAt,       \* history: <<resolved link, depth of its page>>
    failed,            \* history: urls whose link extraction failed
    gets,              \* history: number of completed queue.get()
    dones,             \* history: number of queue.task_done() calls
    preemptive,        \* may a task be switched out between two statements
    wlinks             \* the links a worker's link loop has yet to handle

\* the variables of the URLExtractor
evars == <<max_depth, concurrency, web, doc_urls, visited_urls, queued_urls,
           queue, unfinished_tasks, mpc, wpc, wjob, wcancel, result, calls,
           base, putLog, fetchLog, extractedAt, failed, gets, dones,
           preemptive, wlinks>>

\* the scheduling variables of the URLExtractor's tasks
rvars == <<preemptive, wlinks>>

\* ParallelCrawler and DocumentBuilder (src/crawler/crawler.py)
VARIABLES
    max_processes,     \* self.max_processes: None, or <<n>> for n
    cpu_count,         \* multiprocessing.cpu_count() of the host
    c_urls,            \* the urls handed to crawl
    cpc,               \* where crawl stands
    spawned,           \* number of worker processes of the pool
    taskq,             \* the pool's task queue: chunks of indices into urls
    pw,                \* per worker process: its chunk, fetch and session
    cres,              \* the result pool.map holds for each index
    c_results,         \* the list crawl returned
    dispatched,        \* history: number of crawl_process invocations
    raisedAt,          \* history: indices whose fetch raised
    overtaken,         \* history: a fetch ended before one of an earlier url
    combined           \* the string create_combined_document returned

\* the variables of the fetch stage
cvars == <<max_processes, cpu_count, c_urls, cpc, spawned, taskq, pw, cres,
           c_results, dispatched, raisedAt, overtaken, combined>>

\* DocumentBuilder._split_text (src/crawler/crawler.py)
VARIABLES
    text,              \* the text to split
    chunk_size,        \* target size of a chunk
    chunk_overlap,     \* characters shared by neighbouring chunks
    start,             \* where the next chunk starts
    chunks,            \* the chunks cut so far
    spc                \* where _split_text stands

\* the variables of the splitter
svars == <<text, chunk_size, chunk_overlap, start, chunks, spc>>

\* DocumentBuilder's artifacts and KnowledgeBaseGenerator.generate
\* (src/crawler/crawler.py, src/knowledge_base/generator.py)
VARIABLES
    doc_file,          \* the combined-document file
    chunk_list,        \* the list create_chunks returned
    chunk_args,        \* the chunk_size and chunk_overlap it was given
    chunk_file,        \* the chunk JSON file
    generated          \* what generate returned to its caller

\* the variables of the artifact stage
bvars == <<doc_file, chunk_list, chunk_args, chunk_file, generated>>

vars == <<evars, cvars, svars, bvars>>

config == <<max_depth, concurrency, web>>

NoJob == <<>>

WorkersAtLeastOne == 1..(IF concurrency < 1 THEN 1 ELSE concurrency)

Workers == 1..concurrency

\* depth the seed is enqueued with
SeedDepth == 1

DocMarker == <<"d", "o", "c">>

IsDocUrlCaseSensitive(link) == Contains(link, DocMarker)

\* 'doc' in link.lower()
IsDocUrl(link) == Contains(Lower(link), DocMarker)

\* urlparse(link); if not parsed.netloc: link = urljoin(url, link)
Normalize(url, link) ==
    IF Netloc(link) = <<>> THEN UrlJoin(url, link) ELSE link

SeenNever(url, s) == FALSE

\* `url in s` on a set of url strings
Seen(url, s) == url \in s

\* url in self.visited_urls
AlreadyVisited(url) == Seen(url, visited_urls)

ShouldEnqueueOffByOne(link, depth, queued) ==
    depth <= max_depth /\ ~Seen(link, visited_urls) /\ ~Seen(link, queued)

ShouldEnqueueNoDepth(link, depth, queued) ==
    ~Seen(link, visited_urls) /\ ~Seen(link, queued)

ShouldEnqueueNoQueued(link, depth, queued) ==
    depth < max_depth /\ ~Seen(link, visited_urls)

\* depth < self.max_depth and link not in visited_urls and not in queued_urls
ShouldEnqueue(link, depth, queued) ==
    depth < max_depth /\ ~Seen(link, visited_urls) /\ ~Seen(link, queued)

ResetDocUrlsSkipped == doc_urls

\* self.doc_urls = set() at the start of extract_doc_urls
ResetDocUrls == {}

SeedQueuedForgotten(base_url) == {}

\* self.queued_urls.add(base_url) on the set just emptied
SeedQueued(base_url) == {base_url}

TaskDoneForgotten(u) == u

\* Queue.task_done: one unfinished task less
TaskDone(u) == u - 1

JoinReadyQueueEmpty == queue = <<>>

JoinReadyNoWait == TRUE

\* Queue.join returns once no task is unfinished
JoinReady == unfinished_tasks = 0

\* the links _fetch_links(url) returns when the page loads
PageLinks(url) == IF url \in DOMAIN web THEN web[url] ELSE <<>>

\* the state the link loop of _worker works on
Frontier ==
    [doc |-> doc_urls, queued |-> queued_urls, queue |-> queue,
     unfinished |-> unfinished_tasks, puts |-> putLog]

PutNoMark(f, link, depth) ==
    [f EXCEPT !.queue = Append(@, <<link, depth>>),
              !.unfinished = @ + 1,
              !.puts = Append(@, <<link, depth>>)]

PutFront(f, link, depth) ==
    [f EXCEPT !.queue = <<<<link, depth>>>> \o @,
              !.unfinished = @ + 1,
              !.queued = @ \cup {link},
              !.puts = Append(@, <<link, depth>>)]

\* queue.put((link, depth)) followed by queued_urls.add(link)
Put(f, link, depth) ==
    [f EXCEPT !.queue = Append(@, <<link, depth>>),
              !.unfinished = @ + 1,
              !.queued = @ \cup {link},
              !.puts = Append(@, <<link, depth>>)]

\* the body of `for link in links` once the link is normalized
AddLink(link, depth, f) ==
    LET f1 == IF IsDocUrl(link)
              THEN [f EXCEPT !.doc = @ \cup {link}] ELSE f
    IN  IF ShouldEnqueue(link, depth, f1.queued)
        THEN Put(f1, link, depth + 1)
        ELSE f1

\* the body of `for link in links` for one raw link: `if not link: continue`,
\* then the link is normalized once and used
ProcessLink(raw, url, depth, f) ==
    IF raw = <<>> THEN f
    ELSE CHOOSE g \in {AddLink(link, depth, f) : link \in {Normalize(url, raw)}} : TRUE

\* for link in links: ... (the link loop of _worker, run without suspension)
ProcessLinks(links, url, depth, f) ==
    LET after[i \in 0..Len(links)] ==
            IF i = 0 THEN f ELSE ProcessLink(links[i], url, depth, after[i - 1])
    IN  after[Len(links)]

\* the resolved, non-empty links of a link list found on page url
Resolved(links, url) ==
    {Normalize(url, links[i]) : i \in {k \in 1..Len(links) : links[k] # <<>>}}

\* URLExtractor.__init__: the fields of a fresh extractor
Constructed ==
    /\ doc_urls = {}
    /\ visited_urls = {}
    /\ queued_urls = {}
    /\ queue = <<>>
    /\ unfinished_tasks = 0
    /\ mpc = "idle"
    /\ wpc = [w \in Workers |-> "none"]
    /\ wjob = [w \in Workers |-> NoJob]
    /\ wcancel = [w \in Workers |-> FALSE]
    /\ result = {}
    /\ calls = 0
    /\ base = <<>>
    /\ putLog = <<>>
    /\ fetchLog = <<>>
    /\ extractedAt = {}
    /\ failed = {}
    /\ gets = 0
    /\ dones = 0
    /\ wlinks = [w \in Workers |-> <<>>]

\* asyncio switches tasks at an await and nowhere else
Cooperative == preemptive = FALSE

\* no crawl has been asked of the fetch stage
NoCrawl ==
    /\ max_processes = <<>>
    /\ cpu_count = 1
    /\ c_urls = <<>>
    /\ cpc = "idle"
    /\ spawned = 0
    /\ taskq = <<>>
    /\ pw = <<>>
    /\ cres = <<>>
    /\ c_results = <<>>
    /\ dispatched = 0
    /\ raisedAt = {}
    /\ overtaken = FALSE
    /\ combined = <<>>

\* a file that does not exist
NoFile == [exists |-> FALSE, content |-> <<>>]

\* nothing has been built and generate has not returned
NoBuild ==
    /\ doc_file = NoFile
    /\ chunk_list = <<>>
    /\ chunk_args = <<>>
    /\ chunk_file = NoFile
    /\ generated = [returned |-> FALSE]

\* no split is in progress
NoSplit ==
    /\ text = <<>>
    /\ chunk_size = 0
    /\ chunk_overlap = 0
    /\ start = 0
    /\ chunks = <<>>
    /\ spc = "idle"

\* a fresh extractor, for every site and every constructor argument
Init ==
    /\ max_depth \in 0..MaxDepth
    /\ concurrency \in 0..MaxConcurrency
    /\ web \in [Pages -> LinkLists]
    /\ Constructed
    /\ Cooperative
    /\ NoCrawl
    /\ NoSplit
    /\ NoBuild

\* a fresh extractor on a deeper site, where one branch of the link graph
\* is longer than the other
DeepInit ==
    /\ max_depth \in (DeepDepth - 1)..DeepDepth
    /\ concurrency \in 1..MaxConcurrency
    /\ web \in DeepSites
    /\ Constructed
    /\ Cooperative
    /\ NoCrawl
    /\ NoSplit
    /\ NoBuild

\* extract_doc_urls up to its suspension in `await self.queue.join()`
ExtractDocUrls(base_url) ==
    /\ mpc \in {"idle", "returned"}
    /\ calls < MaxCalls
    /\ doc_urls' = ResetDocUrls
    /\ visited_urls' = {}
    /\ queued_urls' = SeedQueued(base_url)
    /\ queue' = <<<<base_url, SeedDepth>>>>
    /\ unfinished_tasks' = 1
    /\ wpc' = [w \in Workers |-> "get"]
    /\ wjob' = [w \in Workers |-> NoJob]
    /\ wcancel' = [w \in Workers |-> FALSE]
    /\ mpc' = "join"
    /\ calls' = calls + 1
    /\ base' = base_url
    /\ putLog' = <<<<base_url, SeedDepth>>>>
    /\ fetchLog' = <<>>
    /\ extractedAt' = {}
    /\ failed' = {}
    /\ gets' = 0
    /\ dones' = 0
    /\ UNCHANGED <<config, result>>
    /\ UNCHANGED <<rvars, cvars, svars, bvars>>

\* _worker from `await self.queue.get()` to its next suspension: the skip
\* of an already visited url, or the start of _fetch_links
WorkerGet(w) ==
    /\ wpc[w] = "get"
    /\ ~wcancel[w]
    /\ queue # <<>>
    /\ LET job == Head(queue)
           url == job[1]
       IN  /\ queue' = Tail(queue)
           /\ gets' = gets + 1
           /\ IF AlreadyVisited(url)
              THEN /\ IF unfinished_tasks <= 0
                      THEN /\ wpc' = [wpc EXCEPT ![w] = "done"]
                           /\ UNCHANGED unfinished_tasks
                      ELSE /\ unfinished_tasks' = TaskDone(unfinished_tasks)
                           /\ UNCHANGED wpc
                   /\ dones' = dones + 1
                   /\ UNCHANGED <<visited_urls, wjob, fetchLog>>
              ELSE /\ visited_urls' = visited_urls \cup {url}
                   /\ wpc' = [wpc EXCEPT ![w] = "fetch"]
                   /\ wjob' = [wjob EXCEPT ![w] = job]
                   /\ fetchLog' = Append(fetchLog, job)
                   /\ UNCHANGED <<unfinished_tasks, dones>>
    /\ UNCHANGED <<config, doc_urls, queued_urls, mpc, wcancel, result,
                   calls, base, putLog, extractedAt, failed>>
    /\ UNCHANGED <<rvars, cvars, svars, bvars>>

FetchLinksKeptOnFailure(url, ok) == PageLinks(url)

\* _fetch_links: the links of the page, or [] when anything in it raised
FetchLinks(url, ok) == IF ok THEN PageLinks(url) ELSE <<>>

\* _worker from the return of _fetch_links to the next get(): the link
\* loop and the task_done of the finally clause.
WorkerFetched(w, ok) ==
    /\ wpc[w] = "fetch"
    /\ ~wcancel[w]
    /\ LET url == wjob[w][1]
           depth == wjob[w][2]
           links == FetchLinks(url, ok)
           f == ProcessLinks(links, url, depth, Frontier)
       IN  /\ doc_urls' = f.doc
           /\ queued_urls' = f.queued
           /\ queue' = f.queue
           /\ putLog' = f.puts
           /\ extractedAt' =
                  extractedAt \cup {<<l, depth>> : l \in Resolved(links, url)}
           /\ failed' = IF ok THEN failed ELSE failed \cup {url}
           /\ IF f.unfinished <= 0
              THEN /\ wpc' = [wpc EXCEPT ![w] = "done"]
                   /\ unfinished_tasks' = f.unfinished
              ELSE /\ wpc' = [wpc EXCEPT ![w] = "get"]
                   /\ unfinished_tasks' = TaskDone(f.unfinished)
    /\ wjob' = [wjob EXCEPT ![w] = NoJob]
    /\ dones' = dones + 1
    /\ UNCHANGED <<config, visited_urls, mpc, wcancel, result, calls, base,
                   fetchLog, gets>>
    /\ UNCHANGED <<rvars, cvars, svars, bvars>>

\* extract_doc_urls from the return of queue.join() to its suspension in
\* asyncio.gather: task.cancel() for every worker
MainCancel ==
    /\ mpc = "join"
    /\ JoinReady
    /\ wcancel' = [w \in Workers |-> TRUE]
    /\ mpc' = "gather"
    /\ UNCHANGED <<config, doc_urls, visited_urls, queued_urls, queue,
                   unfinished_tasks, wpc, wjob, result, calls, base, putLog,
                   fetchLog, extractedAt, failed, gets, dones>>
    /\ UNCHANGED <<rvars, cvars, svars, bvars>>

\* CancelledError raised in a worker at the await it is suspended in; in
\* _fetch_links it passes `except Exception` and runs the finally clause
WorkerCancelled(w) ==
    /\ wcancel[w]
    /\ wpc[w] \in {"get", "fetch"}
    /\ wpc' = [wpc EXCEPT ![w] = "done"]
    /\ wjob' = [wjob EXCEPT ![w] = NoJob]
    /\ IF wpc[w] = "fetch" /\ unfinished_tasks > 0
       THEN /\ unfinished_tasks' = TaskDone(unfinished_tasks)
            /\ dones' = dones + 1
       ELSE UNCHANGED <<unfinished_tasks, dones>>
    /\ UNCHANGED <<config, doc_urls, visited_urls, queued_urls, queue, mpc,
                   wcancel, result, calls, base, putLog, fetchLog,
                   extractedAt, failed, gets>>
    /\ UNCHANGED <<rvars, cvars, svars, bvars>>

\* extract_doc_urls from the return of gather to `return list(doc_urls)`
MainReturn ==
    /\ mpc = "gather"
    /\ \A w \in Workers : wpc[w] = "done"
    /\ result' = doc_urls
    /\ mpc' = "returned"
    /\ UNCHANGED <<config, doc_urls, visited_urls, queued_urls, queue,
                   unfinished_tasks, wpc, wjob, wcancel, calls, base, putLog,
                   fetchLog, extractedAt, failed, gets, dones>>
    /\ UNCHANGED <<rvars, cvars, svars, bvars>>

Next ==
    \/ \E u \in DOMAIN web : ExtractDocUrls(u)
    \/ \E w \in Workers : WorkerGet(w)
    \/ \E w \in Workers : \E ok \in BOOLEAN : WorkerFetched(w, ok)
    \/ MainCancel
    \/ \E w \in Workers : WorkerCancelled(w)
    \/ MainReturn

Spec == Init /\ [][Next]_vars

\* the event loop runs every task that is ready, and every _fetch_links
\* returns or fails (page.goto has a timeout)
Fairness ==
    /\ \A w \in 1..MaxConcurrency :
          /\ WF_vars(w \in Workers /\ WorkerGet(w))
          /\ WF_vars(w \in Workers /\ \E ok \in BOOLEAN : WorkerFetched(w, ok))
          /\ WF_vars(w \in Workers /\ WorkerCancelled(w))
    /\ WF_vars(MainCancel)
    /\ WF_vars(MainReturn)

FairSpec == Spec /\ Fairness

DeepSpec == DeepInit /\ [][Next]_vars

\* ------------------------------------- _worker under a preemptive scheduler
\* The statements of _worker, with a task switch allowed between a
\* membership test and the insert that follows it. asyncio never switches
\* there: every step below is guarded by Preemption, which Init, DeepInit
\* and PipelineInit leave FALSE.

\* a site where two pages of one level link to the same new page
RacePages == {UA, UB, UC, UD}
RaceSites ==
    { [p \in RacePages |->
          CASE p = UA -> <<UB, UD>>
            [] p = UB -> b
            [] p = UC -> c
            [] p = UD -> d] :
      b \in {<<>>, <<UC>>}, c \in {<<>>, <<UA>>}, d \in {<<>>, <<UC>>} }

PreemptionAlways == TRUE

\* may another task run between two statements that no await separates
Preemption == preemptive

\* an extractor on a site of RaceSites, deep enough to reach the shared
\* page from the seed, under either scheduler
RaceInit ==
    /\ max_depth = MaxDepth + 1
    /\ concurrency \in 1..MaxConcurrency
    /\ web \in RaceSites
    /\ Constructed
    /\ preemptive \in BOOLEAN
    /\ NoCrawl
    /\ NoSplit
    /\ NoBuild

\* _worker from queue.get() to the test `url in self.visited_urls` having
\* failed, the task switched out before visited_urls.add(url)
PreemptedGet(w) ==
    /\ Preemption
    /\ wpc[w] = "get"
    /\ ~wcancel[w]
    /\ queue # <<>>
    /\ ~AlreadyVisited(Head(queue)[1])
    /\ queue' = Tail(queue)
    /\ gets' = gets + 1
    /\ wjob' = [wjob EXCEPT ![w] = Head(queue)]
    /\ wpc' = [wpc EXCEPT ![w] = "visit"]
    /\ UNCHANGED <<config, doc_urls, visited_urls, queued_urls,
                   unfinished_tasks, mpc, wcancel, result, calls, base,
                   putLog, fetchLog, extractedAt, failed, dones>>
    /\ UNCHANGED <<rvars, cvars, svars, bvars>>

\* _worker from visited_urls.add(url) to its suspension in _fetch_links
PreemptedVisit(w) ==
    /\ wpc[w] = "visit"
    /\ visited_urls' = visited_urls \cup {wjob[w][1]}
    /\ fetchLog' = Append(fetchLog, wjob[w])
    /\ wpc' = [wpc EXCEPT ![w] = "fetch"]
    /\ UNCHANGED <<config, doc_urls, queued_urls, queue, unfinished_tasks,
                   mpc, wjob, wcancel, result, calls, base, putLog,
                   extractedAt, failed, gets, dones>>
    /\ UNCHANGED <<rvars, cvars, svars, bvars>>

\* _worker at the return of _fetch_links, switched out before the link loop
PreemptedFetched(w, ok) ==
    /\ Preemption
    /\ wpc[w] = "fetch"
    /\ ~wcancel[w]
    /\ wlinks' = [wlinks EXCEPT ![w] = FetchLinks(wjob[w][1], ok)]
    /\ extractedAt' =
           extractedAt \cup
           {<<l, wjob[w][2]>> :
                l \in Resolved(FetchLinks(wjob[w][1], ok), wjob[w][1])}
    /\ failed' = IF ok THEN failed ELSE failed \cup {wjob[w][1]}
    /\ wpc' = [wpc EXCEPT ![w] = "links"]
    /\ UNCHANGED <<config, doc_urls, visited_urls, queued_urls, queue,
                   unfinished_tasks, mpc, wjob, wcancel, result, calls, base,
                   putLog, fetchLog, gets, dones, preemptive>>
    /\ UNCHANGED <<cvars, svars, bvars>>

\* one turn of `for link in links` up to the enqueue test: the link is
\* dropped, or the task is switched out with the test passed and
\* queue.put still to come
PreemptedCheck(w) ==
    /\ wpc[w] = "links"
    /\ wlinks[w] # <<>>
    /\ LET raw == Head(wlinks[w])
           link == Normalize(wjob[w][1], raw)
       IN  IF raw = <<>>
           THEN /\ wlinks' = [wlinks EXCEPT ![w] = Tail(@)]
                /\ UNCHANGED <<doc_urls, wpc>>
           ELSE /\ doc_urls' = IF IsDocUrl(link)
                               THEN doc_urls \cup {link} ELSE doc_urls
                /\ IF ShouldEnqueue(link, wjob[w][2], queued_urls)
                   THEN /\ wpc' = [wpc EXCEPT ![w] = "put"]
                        /\ UNCHANGED wlinks
                   ELSE /\ wlinks' = [wlinks EXCEPT ![w] = Tail(@)]
                        /\ UNCHANGED wpc
    /\ UNCHANGED <<config, visited_urls, queued_urls, queue,
                   unfinished_tasks, mpc, wjob, wcancel, result, calls, base,
                   putLog, fetchLog, extractedAt, failed, gets, dones,
                   preemptive>>
    /\ UNCHANGED <<cvars, svars, bvars>>

\* queue.put((link, depth + 1)) and queued_urls.add(link) of a task that
\* passed the enqueue test before it was switched out
PreemptedPut(w) ==
    /\ wpc[w] = "put"
    /\ LET link == Normalize(wjob[w][1], Head(wlinks[w]))
           f == Put(Frontier, link, wjob[w][2] + 1)
       IN  /\ queued_urls' = f.queued
           /\ queue' = f.queue
           /\ putLog' = f.puts
           /\ unfinished_tasks' = f.unfinished
    /\ wlinks' = [wlinks EXCEPT ![w] = Tail(@)]
    /\ wpc' = [wpc EXCEPT ![w] = "links"]
    /\ UNCHANGED <<config, doc_urls, visited_urls, mpc, wjob, wcancel,
                   result, calls, base, fetchLog, extractedAt, failed, gets,
                   dones, preemptive>>
    /\ UNCHANGED <<cvars, svars, bvars>>

\* the end of the link loop: task_done of the finally clause
PreemptedDone(w) ==
    /\ wpc[w] = "links"
    /\ wlinks[w] = <<>>
    /\ IF unfinished_tasks <= 0
       THEN /\ wpc' = [wpc EXCEPT ![w] = "done"]
            /\ UNCHANGED unfinished_tasks
       ELSE /\ wpc' = [wpc EXCEPT ![w] = "get"]
            /\ unfinished_tasks' = TaskDone(unfinished_tasks)
    /\ wjob' = [wjob EXCEPT ![w] = NoJob]
    /\ dones' = dones + 1
    /\ UNCHANGED <<config, doc_urls, visited_urls, queued_urls, queue, mpc,
                   wcancel, result, calls, base, putLog, fetchLog,
                   extractedAt, failed, gets>>
    /\ UNCHANGED <<rvars, cvars, svars, bvars>>

RaceNext ==
    \/ \E u \in DOMAIN web : ExtractDocUrls(u)
    \/ \E w \in Workers : WorkerGet(w)
    \/ \E w \in Workers : \E ok \in BOOLEAN : WorkerFetched(w, ok)
    \/ MainCancel
    \/ \E w \in Workers : WorkerCancelled(w)
    \/ MainReturn
    \/ \E w \in Workers : PreemptedGet(w)
    \/ \E w \in Workers : PreemptedVisit(w)
    \/ \E w \in Workers : \E ok \in BOOLEAN : PreemptedFetched(w, ok)
    \/ \E w \in Workers : PreemptedCheck(w)
    \/ \E w \in Workers : PreemptedPut(w)
    \/ \E w \in Workers : PreemptedDone(w)

RaceSpec == RaceInit /\ [][RaceNext]_vars

\* ----------------------------------------------------- ParallelCrawler
(***************************************************************************)
(* Part 2: the fetch stage (src/crawler/crawler.py).  crawl hands the url  *)
(* list to multiprocessing.Pool.map, which cuts it into chunks, lets each  *)
(* worker process take one chunk at a time from the task queue and run     *)
(* crawl_process on its urls one after the other, and returns the results  *)
(* by input index once every chunk is done.  crawl_process opens an        *)
(* AsyncWebCrawler, fetches, and closes it on the way out of `async with`. *)
(* What a fetch does is the environment's choice: it produces markdown     *)
(* (possibly empty), raises, or never completes.  max_processes is None or *)
(* a number >= 1, the documented meaning of the constructor argument.      *)
(***************************************************************************)

\* max_processes=None; a number n is held as <<n>>
None == <<>>

\* the slot of a url whose chunk has not reported yet
NoResult == [pending |-> TRUE]

\* the urls crawl may be handed: lists with and without a repeated url
CrawlUrls == {UA, UD}
UrlLists ==
    UNION { [1..n -> CrawlUrls] : n \in 0..MaxUrls }

\* what crawler.arun may hand back as result.markdown, and str(e)
Markdowns == {<<>>, <<"m">>}
Errors == {<<"e">>}
Outcomes ==
    { [ok |-> TRUE, markdown |-> m] : m \in Markdowns }
      \cup { [ok |-> FALSE, error |-> e] : e \in Errors }

Min(a, b) == IF a <= b THEN a ELSE b

CrawlAsyncNoUrl(url, outcome) ==
    IF outcome.ok
    THEN [url |-> <<>>, success |-> TRUE, markdown |-> outcome.markdown]
    ELSE [url |-> <<>>, success |-> FALSE, error |-> outcome.error]

CrawlAsyncFailureHidden(url, outcome) ==
    IF outcome.ok
    THEN [url |-> url, success |-> TRUE, markdown |-> outcome.markdown]
    ELSE [url |-> url, success |-> TRUE, markdown |-> <<>>]

\* crawl_async: the record built from the fetch, or from the exception
CrawlAsync(url, outcome) ==
    IF outcome.ok
    THEN [url |-> url, success |-> TRUE, markdown |-> outcome.markdown]
    ELSE [url |-> url, success |-> FALSE, error |-> outcome.error]

NoUrlsIgnored(urls) == FALSE

\* `if not urls`
NoUrls(urls) == urls = <<>>

\* the limit on worker processes: max_processes, or cpu_count() for None
MaxWorkers == IF max_processes = None THEN cpu_count ELSE max_processes[1]

PoolSizeUncapped(urls) == MaxWorkers

\* min(max_processes, len(urls))
PoolSize(urls) == Min(MaxWorkers, Len(urls))

\* Pool._map_async: chunksize, extra = divmod(len, 4 * processes)
ChunkSize(n, procs) ==
    IF n % (4 * procs) > 0
    THEN n \div (4 * procs) + 1
    ELSE n \div (4 * procs)

\* Pool._get_tasks: the indices 1..n cut into runs of `size`
Chunks(n, size) ==
    [k \in 1..((n + size - 1) \div size) |->
        [j \in 1..Min(size, n - (k - 1) * size) |-> (k - 1) * size + j]]

IdleProcess == [chunk |-> <<>>, running |-> 0, session |-> 0, hung |-> FALSE]

NewSessionShared(n) == 1

\* the AsyncWebCrawler constructed by this invocation of crawl_async
NewSession(n) == n + 1

CollectInFinishOrder(res, i, record) ==
    [res EXCEPT ![CHOOSE k \in DOMAIN res :
                     /\ res[k] = NoResult
                     /\ \A j \in 1..(k - 1) : res[j] # NoResult] = record]

\* pool.map keeps the value crawl_process returned for the i-th url at
\* position i of its result list
Collect(res, i, record) == [res EXCEPT ![i] = record]

MapDoneFirst(res) == \E i \in DOMAIN res : res[i] # NoResult

\* MapResult is ready when every chunk has reported
MapDone(res) == \A i \in DOMAIN res : res[i] # NoResult

\* "# Content from "
Header ==
    <<"#", " ", "C", "o", "n", "t", "e", "n", "t", " ", "f", "r", "o", "m",
      " ">>

\* "\n\n---\n\n"
Separator == <<"\n", "\n", "-", "-", "-", "\n", "\n">>

HasSectionSuccessOnly(r) == "success" \in DOMAIN r /\ r.success

\* `if result.get("success") and result.get("markdown")`
HasSection(r) ==
    /\ "success" \in DOMAIN r /\ r.success
    /\ "markdown" \in DOMAIN r /\ r.markdown # <<>>

\* f"# Content from {url}\n\n{markdown}"
Section(r) == Header \o r.url \o <<"\n", "\n">> \o r.markdown

\* "\n\n---\n\n".join(all_content)
Join(parts) ==
    LET joined[i \in 0..Len(parts)] ==
            IF i = 0 THEN <<>>
            ELSE IF i = 1 THEN parts[1]
            ELSE joined[i - 1] \o Separator \o parts[i]
    IN  joined[Len(parts)]

\* create_combined_document: the content it returns
CombinedDocument(results) ==
    LET kept == SelectSeq(results, HasSection)
    IN  Join([i \in 1..Len(kept) |-> Section(kept[i])])

\* the host and the constructor argument, before crawl is called
CrawlerConstructed ==
    /\ max_processes \in {None} \cup { <<n>> : n \in 1..MaxRequested }
    /\ cpu_count \in 1..MaxCores
    /\ c_urls = <<>>
    /\ cpc = "idle"
    /\ spawned = 0
    /\ taskq = <<>>
    /\ pw = <<>>
    /\ cres = <<>>
    /\ c_results = <<>>
    /\ dispatched = 0
    /\ raisedAt = {}
    /\ overtaken = FALSE
    /\ combined = <<>>

\* the extractor is not part of a run of the fetch stage alone
NoExtractor ==
    /\ max_depth = 0
    /\ concurrency = 0
    /\ web = <<>>
    /\ Constructed
    /\ Cooperative

CrawlInit == NoExtractor /\ CrawlerConstructed /\ NoSplit /\ NoBuild

\* crawl(urls) up to pool.map having queued its tasks
Crawl(urls) ==
    /\ cpc = "idle"
    /\ c_urls' = urls
    /\ IF NoUrls(urls)
       THEN /\ cpc' = "returned"
            /\ c_results' = <<>>
            /\ UNCHANGED <<spawned, taskq, pw, cres>>
       ELSE IF PoolSize(urls) < 1
       THEN \* Pool raises ValueError("Number of processes must be at least 1")
            /\ cpc' = "raised"
            /\ UNCHANGED <<spawned, taskq, pw, cres, c_results>>
       ELSE /\ cpc' = "map"
            /\ spawned' = PoolSize(urls)
            /\ taskq' = Chunks(Len(urls), ChunkSize(Len(urls), PoolSize(urls)))
            /\ pw' = [w \in 1..PoolSize(urls) |-> IdleProcess]
            /\ cres' = [i \in 1..Len(urls) |-> NoResult]
            /\ UNCHANGED c_results
    /\ UNCHANGED <<max_processes, cpu_count, dispatched, raisedAt, overtaken,
                   combined>>
    /\ UNCHANGED <<evars, svars, bvars>>

\* a worker process calls crawl_process on the next url of its chunk, taking
\* a chunk from the task queue when it has none
StartFetch(w) ==
    /\ cpc = "map"
    /\ pw[w].running = 0
    /\ pw[w].chunk # <<>> \/ taskq # <<>>
    /\ LET job == IF pw[w].chunk # <<>> THEN pw[w].chunk ELSE Head(taskq)
       IN  pw' = [pw EXCEPT ![w] = [chunk |-> Tail(job),
                                    running |-> Head(job),
                                    session |-> NewSession(dispatched),
                                    hung |-> FALSE]]
    /\ taskq' = IF pw[w].chunk # <<>> THEN taskq ELSE Tail(taskq)
    /\ dispatched' = dispatched + 1
    /\ UNCHANGED <<max_processes, cpu_count, c_urls, cpc, spawned, cres,
                   c_results, raisedAt, overtaken, combined>>
    /\ UNCHANGED <<evars, svars, bvars>>

\* crawl_async comes to its end: the session is closed and the record goes
\* back to the parent
FinishFetch(w, outcome) ==
    /\ cpc = "map"
    /\ pw[w].running # 0
    /\ ~pw[w].hung
    /\ cres' = Collect(cres, pw[w].running,
                       CrawlAsync(c_urls[pw[w].running], outcome))
    /\ overtaken' = (overtaken \/ \E j \in 1..(pw[w].running - 1) :
                                      cres[j] = NoResult)
    /\ raisedAt' = IF outcome.ok THEN raisedAt
                   ELSE raisedAt \cup {pw[w].running}
    /\ pw' = [pw EXCEPT ![w].running = 0, ![w].session = 0]
    /\ UNCHANGED <<max_processes, cpu_count, c_urls, cpc, spawned, taskq,
                   c_results, dispatched, combined>>
    /\ UNCHANGED <<evars, svars, bvars>>

\* crawler.arun never completes
FetchHangs(w) ==
    /\ cpc = "map"
    /\ pw[w].running # 0
    /\ ~pw[w].hung
    /\ pw' = [pw EXCEPT ![w].hung = TRUE]
    /\ UNCHANGED <<max_processes, cpu_count, c_urls, cpc, spawned, taskq,
                   cres, c_results, dispatched, raisedAt, overtaken, combined>>
    /\ UNCHANGED <<evars, svars, bvars>>

\* pool.map returns, the pool is closed, crawl returns the results
CrawlReturn ==
    /\ cpc = "map"
    /\ MapDone(cres)
    /\ c_results' = cres
    /\ cpc' = "returned"
    /\ UNCHANGED <<max_processes, cpu_count, c_urls, spawned, taskq, pw,
                   cres, dispatched, raisedAt, overtaken, combined>>
    /\ UNCHANGED <<evars, svars, bvars>>

AfterWritePropagating(ok) == IF ok THEN "return" ELSE "raise"

\* try: open, write; except Exception: logger.error; then the return
AfterWrite(ok) == "return"

\* open(output_file, "w") and f.write: the file holds the content, or the
\* write fails and leaves no file
Written(file, content, ok) ==
    IF ok THEN [exists |-> TRUE, content |-> content] ELSE file

\* create_combined_document on the results of crawl; `ok` is whether the
\* file system lets the file be written
CreateCombinedDocument(ok) ==
    /\ cpc = "returned"
    /\ doc_file' = Written(doc_file, CombinedDocument(c_results), ok)
    /\ IF AfterWrite(ok) = "return"
       THEN /\ combined' = CombinedDocument(c_results)
            /\ cpc' = "built"
       ELSE /\ combined' = combined
            /\ cpc' = "raised"
    /\ UNCHANGED <<max_processes, cpu_count, c_urls, spawned, taskq, pw,
                   cres, c_results, dispatched, raisedAt, overtaken>>
    /\ UNCHANGED <<chunk_list, chunk_args, chunk_file, generated>>
    /\ UNCHANGED <<evars, svars>>

CrawlNext ==
    \/ \E urls \in UrlLists : Crawl(urls)
    \/ \E w \in 1..spawned : StartFetch(w)
    \/ \E w \in 1..spawned : \E outcome \in Outcomes : FinishFetch(w, outcome)
    \/ \E w \in 1..spawned : FetchHangs(w)
    \/ CrawlReturn
    \/ \E ok \in BOOLEAN : CreateCombinedDocument(ok)

CrawlSpec == CrawlInit /\ [][CrawlNext]_vars

\* ------------------------------------------------ DocumentBuilder._split_text
(***************************************************************************)
(* Part 3: _split_text (src/crawler/crawler.py), one action per iteration  *)
(* of its while loop.  Positions are Python's: start and end count from 0, *)
(* text[start:end] is SubSeq(text, start + 1, end).  chunk_size and        *)
(* chunk_overlap are sizes, taken >= 0.                                    *)
(***************************************************************************)

\* the pieces texts are made of: a letter and the three break marks
Paragraph == <<"\n", "\n">>
Sentence == <<".", " ">>
Space == <<" ">>
Tokens == {<<"a">>, Space, Sentence, Paragraph}

Flatten(ts) ==
    LET flat[i \in 0..Len(ts)] ==
            IF i = 0 THEN <<>> ELSE flat[i - 1] \o ts[i]
    IN  flat[Len(ts)]

Texts ==
    { Flatten(ts) : ts \in UNION { [1..n -> Tokens] : n \in 0..MaxTokens } }

\* sub occurs in s at position i
MatchAt(s, sub, i) == \A k \in 1..Len(sub) : s[i + k] = sub[k]

\* the positions of s[lo:hi] where sub occurs
Hits(s, sub, lo, hi) ==
    { i \in lo..(Min(hi, Len(s)) - Len(sub)) : MatchAt(s, sub, i) }

\* str.find(sub, lo, hi) for 0 <= lo
Find(s, sub, lo, hi) ==
    IF Hits(s, sub, lo, hi) = {} THEN -1
    ELSE CHOOSE i \in Hits(s, sub, lo, hi) :
            \A j \in Hits(s, sub, lo, hi) : i <= j

\* str.rfind(sub, lo, hi) for 0 <= lo
RFind(s, sub, lo, hi) ==
    IF Hits(s, sub, lo, hi) = {} THEN -1
    ELSE CHOOSE i \in Hits(s, sub, lo, hi) :
            \A j \in Hits(s, sub, lo, hi) : i >= j

BreakEndFarParagraph(s, end, size) ==
    IF Find(s, Paragraph, end - size \div 2, end + size) # -1
    THEN Find(s, Paragraph, end - size \div 2, end + size) + 2
    ELSE IF Find(s, Sentence, end - size \div 4, end + size \div 4) # -1
    THEN Find(s, Sentence, end - size \div 4, end + size \div 4) + 2
    ELSE IF RFind(s, Space, end - size \div 8, end) # -1
    THEN RFind(s, Space, end - size \div 8, end) + 1
    ELSE end

BreakEndSentenceFirst(s, end, size) ==
    IF Find(s, Sentence, end - size \div 4, end + size \div 4) # -1
    THEN Find(s, Sentence, end - size \div 4, end + size \div 4) + 2
    ELSE IF Find(s, Paragraph, end - size \div 2, end + size \div 2) # -1
    THEN Find(s, Paragraph, end - size \div 2, end + size \div 2) + 2
    ELSE IF RFind(s, Space, end - size \div 8, end) # -1
    THEN RFind(s, Space, end - size \div 8, end) + 1
    ELSE end

\* the end of the chunk at a paragraph break, a sentence break or a space
\* near `end`, else `end` itself
BreakEnd(s, end, size) ==
    IF Find(s, Paragraph, end - size \div 2, end + size \div 2) # -1
    THEN Find(s, Paragraph, end - size \div 2, end + size \div 2) + 2
    ELSE IF Find(s, Sentence, end - size \div 4, end + size \div 4) # -1
    THEN Find(s, Sentence, end - size \div 4, end + size \div 4) + 2
    ELSE IF RFind(s, Space, end - size \div 8, end) # -1
    THEN RFind(s, Space, end - size \div 8, end) + 1
    ELSE end

\* `end` as it stands when the chunk is cut
ChunkEnd(s, from, size) ==
    IF from + size < Len(s)
    THEN Min(BreakEnd(s, from + size, size), Len(s))
    ELSE Min(from + size, Len(s))

NextStartAlwaysForced(from, end, overlap) == from + 1

NextStartSkipping(from, end, overlap) == end + 1

NextStartUnforced(from, end, overlap) == end - overlap

NextStartNoOverlap(from, end, overlap) == end

\* next_start, with at least one character of progress
NextStart(from, end, overlap) ==
    IF end - overlap <= from THEN from + 1 ELSE end - overlap

\* _split_text is about to be called, for every text and every setting
SplitInit ==
    /\ NoExtractor
    /\ NoCrawl
    /\ NoBuild
    /\ text \in Texts
    /\ chunk_size \in 0..MaxChunkSize
    /\ chunk_overlap \in 0..MaxOverlap
    /\ start = 0
    /\ chunks = <<>>
    /\ spc = "idle"

FitsOneChunkStrictly(s, size) == Len(s) < size

\* `if len(text) <= chunk_size`
FitsOneChunk(s, size) == Len(s) <= size

\* the call up to the while loop: the two edge cases return at once
SplitCall ==
    /\ spc = "idle"
    /\ IF text = <<>>
       THEN chunks' = <<>> /\ spc' = "done"
       ELSE IF FitsOneChunk(text, chunk_size)
       THEN chunks' = <<text>> /\ spc' = "done"
       ELSE chunks' = <<>> /\ spc' = "loop"
    /\ start' = 0
    /\ UNCHANGED <<text, chunk_size, chunk_overlap>>
    /\ UNCHANGED <<evars, cvars, bvars>>

\* one iteration of the while loop
SplitStep ==
    /\ spc = "loop"
    /\ LET end == ChunkEnd(text, start, chunk_size)
       IN  /\ chunks' = Append(chunks, SubSeq(text, start + 1, end))
           /\ start' = NextStart(start, end, chunk_overlap)
    /\ spc' = IF start' >= Len(text) THEN "done" ELSE "loop"
    /\ UNCHANGED <<text, chunk_size, chunk_overlap>>
    /\ UNCHANGED <<evars, cvars, bvars>>

SplitNext == SplitCall \/ SplitStep

SplitSpec == SplitInit /\ [][SplitNext]_vars

\* the interpreter keeps running the loop
FairSplitSpec == SplitSpec /\ WF_vars(SplitNext)

\* texts long enough, and a chunk size large enough, for each of the three
\* windows of the boundary search to hold more than one position
WideChunkSize == 16
WideOverlap == 4
WidePieces == 7
WideTokens ==
    { <<"a", "a", "a", "a">>,
      <<"a", "\n", "\n", "a">>,
      <<"a", ".", " ", "a">>,
      <<" ">> }

WideTexts == { Flatten(ts) : ts \in [1..WidePieces -> WideTokens] }

\* _split_text is about to be called on a wide text
WideSplitInit ==
    /\ NoExtractor
    /\ NoCrawl
    /\ NoBuild
    /\ text \in WideTexts
    /\ chunk_size = WideChunkSize
    /\ chunk_overlap \in {0, WideOverlap}
    /\ start = 0
    /\ chunks = <<>>
    /\ spc = "idle"

WideSplitSpec == WideSplitInit /\ [][SplitNext]_vars

\* -------------------------------------------------------- DocumentBuilder
(***************************************************************************)
(* Part 4: create_chunks (src/crawler/crawler.py).  _split_text as one     *)
(* function of its arguments, the chunk records built from it, and the     *)
(* two artifact writers applied to any result list crawl can return.       *)
(***************************************************************************)

\* _split_text(s, size, overlap): the list the loop of Part 3 builds
SplitText(s, size, overlap) ==
    LET rest[from \in 0..Len(s)] ==
            IF from >= Len(s) THEN <<>>
            ELSE <<SubSeq(s, from + 1, ChunkEnd(s, from, size))>>
                   \o rest[NextStart(from, ChunkEnd(s, from, size), overlap)]
    IN  IF s = <<>> THEN <<>>
        ELSE IF FitsOneChunk(s, size) THEN <<s>>
        ELSE rest[0]

\* the characters str.strip() removes, among those texts are made of
Whitespace == {" ", "\n"}

\* `not content.strip()`
IsBlank(s) == \A i \in 1..Len(s) : s[i] \in Whitespace

ChunkableUnstripped(r) ==
    /\ "success" \in DOMAIN r /\ r.success
    /\ "markdown" \in DOMAIN r /\ r.markdown # <<>>

\* a result create_chunks does not skip: success, markdown, and markdown
\* that is more than whitespace
Chunkable(r) ==
    /\ "success" \in DOMAIN r /\ r.success
    /\ "markdown" \in DOMAIN r /\ r.markdown # <<>>
    /\ ~IsBlank(r.markdown)

\* the chunk dicts of one result
RecordsOf(r, size, overlap) ==
    [k \in 1..Len(SplitText(r.markdown, size, overlap)) |->
        [content |-> SplitText(r.markdown, size, overlap)[k],
         url |-> r.url,
         chunk_length |-> Len(SplitText(r.markdown, size, overlap)[k])]]

\* create_chunks: the list it returns
ChunkRecords(results, size, overlap) ==
    LET done[i \in 0..Len(results)] ==
            IF i = 0 THEN <<>>
            ELSE IF Chunkable(results[i])
            THEN done[i - 1] \o RecordsOf(results[i], size, overlap)
            ELSE done[i - 1]
    IN  done[Len(results)]

\* create_chunks on the results of crawl; `ok` is whether the file system
\* lets the JSON file be written
CreateChunks(size, overlap, ok) ==
    /\ cpc = "built"
    /\ chunk_args' = <<size, overlap>>
    /\ chunk_file' = Written(chunk_file, ChunkRecords(c_results, size, overlap), ok)
    /\ IF AfterWrite(ok) = "return"
       THEN /\ chunk_list' = ChunkRecords(c_results, size, overlap)
            /\ cpc' = "chunked"
       ELSE /\ chunk_list' = chunk_list
            /\ cpc' = "raised"
    /\ UNCHANGED <<max_processes, cpu_count, c_urls, spawned, taskq, pw,
                   cres, c_results, dispatched, raisedAt, overtaken, combined>>
    /\ UNCHANGED <<doc_file, generated>>
    /\ UNCHANGED <<evars, svars>>

\* the markdown of a page: none, blank, one chunk, several chunks
BuildMarkdowns == {<<>>, <<" ">>, <<"m">>, <<"a", " ", "b">>}

\* the records crawl_async can build from them
BuildRecords ==
    { CrawlAsync(u, [ok |-> TRUE, markdown |-> m]) :
        u \in CrawlUrls, m \in BuildMarkdowns }
      \cup { CrawlAsync(u, [ok |-> FALSE, error |-> e]) :
               u \in CrawlUrls, e \in Errors }

BuildResults ==
    UNION { [1..n -> BuildRecords] : n \in 0..MaxResults }

\* crawl has returned some result list; nothing is built yet
BuildInit ==
    /\ NoExtractor
    /\ NoSplit
    /\ NoBuild
    /\ max_processes = <<>>
    /\ cpu_count = 1
    /\ c_urls = <<>>
    /\ cpc = "returned"
    /\ spawned = 0
    /\ taskq = <<>>
    /\ pw = <<>>
    /\ cres = <<>>
    /\ c_results \in BuildResults
    /\ dispatched = 0
    /\ raisedAt = {}
    /\ overtaken = FALSE
    /\ combined = <<>>

BuildNext ==
    \/ \E ok \in BOOLEAN : CreateCombinedDocument(ok)
    \/ \E size \in 1..MaxBuildChunk : \E overlap \in 0..MaxBuildOverlap :
          \E ok \in BOOLEAN : CreateChunks(size, overlap, ok)

BuildSpec == BuildInit /\ [][BuildNext]_vars

\* ------------------------------------------------- KnowledgeBaseGenerator
(***************************************************************************)
(* Part 5: generate (src/knowledge_base/generator.py): extract_doc_urls,   *)
(* then crawl on the list it returned, then the two artifacts, then the    *)
(* return of the path.  The extractor and the crawler are built from the   *)
(* same `concurrency`; create_chunks runs with its default sizes.          *)
(***************************************************************************)

\* the sites generate is run on: up to two documentation pages
PipePages == {UA, UD, UN}
PipeLinks == { <<>>, <<UN>>, <<UD, UN>> }

\* output_dir, "_docs.txt" and os.path.join's separator
OutputDir == <<"o">>
DocsSuffix == <<"_", "d", "o", "c", "s", ".", "t", "x", "t">>

\* clean_url: the netloc with every "." replaced by "_"
CleanUrl(url) ==
    [i \in 1..Len(Netloc(url)) |->
        IF Netloc(url)[i] = "." THEN "_" ELSE Netloc(url)[i]]

\* os.path.join(self.output_dir, f"{doc_name}_docs.txt")
KnowledgeBasePath(doc_url) ==
    OutputDir \o <<"/">> \o CleanUrl(doc_url) \o DocsSuffix

\* list(doc_urls): the set in some order
Orderings(S) ==
    { s \in [1..Cardinality(S) -> S] :
        \A i \in 1..Cardinality(S) : \A j \in 1..Cardinality(S) :
            i # j => s[i] # s[j] }

\* a generator is constructed; generate has not been called
PipelineInit ==
    /\ max_depth \in 0..MaxDepth
    /\ concurrency \in 0..MaxConcurrency
    /\ web \in [PipePages -> PipeLinks]
    /\ Constructed
    /\ Cooperative
    /\ max_processes = <<concurrency>>
    /\ cpu_count = 1
    /\ c_urls = <<>>
    /\ cpc = "idle"
    /\ spawned = 0
    /\ taskq = <<>>
    /\ pw = <<>>
    /\ cres = <<>>
    /\ c_results = <<>>
    /\ dispatched = 0
    /\ raisedAt = {}
    /\ overtaken = FALSE
    /\ combined = <<>>
    /\ NoSplit
    /\ NoBuild

\* generate(doc_url) up to the suspension of extract_doc_urls
GenerateExtract(doc_url) ==
    /\ calls = 0
    /\ ExtractDocUrls(doc_url)

ExtractReturnedOrGathering == mpc \in {"gather", "returned"}

\* `doc_urls = await self.url_extractor.extract_doc_urls(doc_url)` is over
ExtractReturned == mpc = "returned"

\* results = self.crawler.crawl(doc_urls)
GenerateCrawl ==
    /\ ExtractReturned
    /\ \E urls \in Orderings(result) : Crawl(urls)

\* self.document_builder.create_chunks(results, output_file=...)
GenerateChunks(ok) == CreateChunks(DefaultChunkSize, DefaultChunkOverlap, ok)

\* return knowledge_base_path
GenerateReturn ==
    /\ cpc = "chunked"
    /\ ~generated.returned
    /\ generated' = [returned |-> TRUE, path |-> KnowledgeBasePath(base)]
    /\ UNCHANGED <<doc_file, chunk_list, chunk_args, chunk_file>>
    /\ UNCHANGED <<evars, cvars, svars>>

PipelineNext ==
    \/ \E u \in DOMAIN web : GenerateExtract(u)
    \/ \E w \in Workers : WorkerGet(w)
    \/ \E w \in Workers : \E ok \in BOOLEAN : WorkerFetched(w, ok)
    \/ MainCancel
    \/ \E w \in Workers : WorkerCancelled(w)
    \/ MainReturn
    \/ GenerateCrawl
    \/ \E w \in 1..spawned : StartFetch(w)
    \/ \E w \in 1..spawned : \E outcome \in Outcomes : FinishFetch(w, outcome)
    \/ \E w \in 1..spawned : FetchHangs(w)
    \/ CrawlReturn
    \/ \E ok \in BOOLEAN : CreateCombinedDocument(ok)
    \/ \E ok \in BOOLEAN : GenerateChunks(ok)
    \/ GenerateReturn

PipelineSpec == PipelineInit /\ [][PipelineNext]_vars

\* generate is not suspended between the return of crawl and its own return:
\* the two builder calls and the return statement follow at once
FairPipelineSpec ==
    /\ PipelineSpec
    /\ WF_vars(\E ok \in BOOLEAN : CreateCombinedDocument(ok))
    /\ WF_vars(\E ok \in BOOLEAN : GenerateChunks(ok))
    /\ WF_vars(GenerateReturn)

\* ------------------------------------------------------------- claims
\* the urls of a log of jobs are pairwise different
NoDuplicateUrl(log) ==
    \A i, j \in 1..Len(log) : i # j => log[i][1] # log[j][1]

\* the links extracted so far whose lowercase form contains "doc"
ExtractedDocLinks ==
    {p[1] : p \in {q \in extractedAt : Contains(Lower(q[1]), <<"d", "o", "c">>)}}

\* some worker is between get() and task_done()
SomeJobInFlight == \E w \in Workers : wpc[w] = "fetch"

\* C1 as stated: every job a worker dequeues and processes has
\* depth <= max_depth, for every max_depth including 0.
C1_DepthBoundAnyDepth ==
    \A i \in 1..Len(fetchLog) : fetchLog[i][2] <= max_depth

\* C1 amended: every processed job has depth <= max_depth when
\* max_depth >= 1; with max_depth = 0 the seed job, of depth 1, is still
\* processed and is the only one.
C1_DepthBound ==
    \A i \in 1..Len(fetchLog) :
        \/ fetchLog[i][2] <= max_depth
        \/ max_depth = 0 /\ fetchLog[i] = <<base, SeedDepth>>

\* C1 witness: a page was processed at depth = max_depth >= 2 and one of
\* its links was kept off the queue
C1_Witness ==
    /\ max_depth >= 2
    /\ \E i \in 1..Len(fetchLog) : fetchLog[i][2] = max_depth
    /\ \E p \in extractedAt : p[2] = max_depth /\ p[1] \notin queued_urls

\* C2: within one call every url is put on the work queue at most once,
\* the seed included.
C2_AtMostOnceEnqueue == NoDuplicateUrl(putLog)

\* C2 witness: a page carrying the same new link twice and a page linking
\* back to the seed were both processed, with two workers
C2_Witness ==
    /\ concurrency = 2
    /\ \E i \in 1..Len(fetchLog) : web[fetchLog[i][1]] = <<UD, UD>>
    /\ \E i \in 1..Len(putLog) : putLog[i] = <<UD, 2>>
    /\ <<base, 2>> \in extractedAt \/ <<base, 3>> \in extractedAt
    /\ mpc = "returned"

\* C3: within one call _fetch_links is invoked at most once per url.
C3_AtMostOnceVisit == NoDuplicateUrl(fetchLog)

\* C3 witness: three pages were fetched by two workers on a site whose
\* pages link back to pages already visited
C3_Witness ==
    /\ concurrency = 2
    /\ Len(fetchLog) = 3
    /\ \E p \in extractedAt : p[1] \in visited_urls /\ p[2] >= 2

\* C4: visited is a subset of queued in every reachable state.
C4_VisitedSubsetQueued == visited_urls \subseteq queued_urls

\* C4 witness: two urls are visited while a third is queued only
C4_Witness ==
    /\ Cardinality(visited_urls) = 2
    /\ Cardinality(queued_urls) = 3

C8_Termination == (mpc = "join" /\ concurrency >= 1) ~> (mpc = "returned")

\* C8 witness: a call on a cyclic site has returned
C8_Witness ==
    /\ mpc = "returned"
    /\ Cardinality(visited_urls) = 3
    /\ \E p \in extractedAt : p[1] = base

\* C9: extract_doc_urls is past queue.join() only in states where the
\* queue is empty and every dequeued job has been marked complete.
C9_DrainBarrier ==
    mpc \in {"gather", "returned"} =>
        /\ queue = <<>>
        /\ unfinished_tasks = 0
        /\ gets = dones
        /\ ~SomeJobInFlight

\* C9 witness: the queue is empty while the call still waits in join()
\* and a worker is processing a page whose links will be enqueued
C9_Witness ==
    /\ mpc = "join"
    /\ queue = <<>>
    /\ \E w \in Workers :
          /\ wpc[w] = "fetch"
          /\ \E l \in Resolved(PageLinks(wjob[w][1]), wjob[w][1]) :
                ShouldEnqueue(l, wjob[w][2], queued_urls)

\* C10: a worker whose cancellation was requested is waiting in
\* queue.get() (or has ended): none is cancelled between get() and
\* task_done().
C10_CancelIdleWorkers ==
    \A w \in Workers : wcancel[w] => wpc[w] \in {"get", "done"}

\* C10 witness: both workers are cancelled while waiting in get(), after
\* three pages were processed
C10_Witness ==
    /\ mpc = "gather"
    /\ concurrency = 2
    /\ \A w \in Workers : wcancel[w] /\ wpc[w] = "get"
    /\ Len(fetchLog) = 3

\* the step puts no job of some depth d on the queue after a job of depth
\* d + 1 has been handed to _fetch_links
KeepsDepthOrder ==
    \A i \in (Len(putLog) + 1)..Len(putLog') :
        \A j \in 1..Len(fetchLog) : fetchLog[j][2] # putLog'[i][2] + 1

\* C11 as stated: for every concurrency and interleaving, all depth-d jobs
\* are enqueued before any depth-(d+1) job is processed.
C11_BfsOrderAnyConcurrency == [][KeepsDepthOrder]_vars

\* C11 amended: with concurrency = 1 all depth-d jobs are enqueued before
\* any depth-(d+1) job is processed; with concurrency >= 2 a depth-d job
\* may be enqueued after a depth-(d+1) job was processed.
C11_BfsOrder == [][concurrency = 1 => KeepsDepthOrder]_vars

\* C11 witness: one worker has processed jobs of depths 1 to 4, two of
\* them of depth 3, one from each branch of the site
C11_Witness ==
    /\ concurrency = 1
    /\ mpc = "returned"
    /\ \E i, j \in 1..Len(fetchLog) :
          /\ fetchLog[i] = <<UC, 3>>
          /\ fetchLog[j] = <<UF, 3>>
    /\ \E i \in 1..Len(fetchLog) : fetchLog[i][2] = 4

\* C12: every extract_doc_urls call starts with visited, queued and
\* docUrls emptied and a fresh queue holding only the seed at depth 1, and
\* the result of a call holds only urls extracted during that call.
C12_ResetPerCall ==
    /\ [][calls' = calls + 1 =>
             /\ doc_urls' = {}
             /\ visited_urls' = {}
             /\ queued_urls' = {base'}
             /\ queue' = <<<<base', SeedDepth>>>>
             /\ unfinished_tasks' = 1]_vars
    /\ [](mpc = "returned" => result \subseteq {p[1] : p \in extractedAt})

\* C12 witness: the second call is about to return an empty set while the
\* first call returned a doc url
C12_Witness ==
    /\ calls = 2
    /\ mpc = "gather"
    /\ result = {UD}
    /\ doc_urls = {}
    /\ Len(fetchLog) >= 1

\* the worker processes that are inside a fetch
InProgress == { w \in 1..spawned : pw[w].running # 0 }

\* crawl has handed its list back
CrawlReturned == cpc \in {"returned", "built"}

\* C13: crawl(urls) returns exactly len(urls) result records, one for each
\* input url (its url field is that url), whatever the fetches did.
C13_OneResultPerUrl ==
    CrawlReturned =>
        /\ Len(c_results) = Len(c_urls)
        /\ \A u \in CrawlUrls :
              Cardinality({ i \in DOMAIN c_results : c_results[i].url = u })
                = Cardinality({ i \in DOMAIN c_urls : c_urls[i] = u })

\* C13 witness: a list of three with a repeated url came back from a mix of
\* successful and raising fetches
C13_Witness ==
    /\ cpc = "returned"
    /\ Len(c_urls) = 3
    /\ c_urls[1] = c_urls[3]
    /\ c_urls[1] # c_urls[2]
    /\ raisedAt = {1}
    /\ c_results[3].success

\* C14 as stated: crawl does not raise, every url has a result, the results
\* with success=false are exactly those of the fetches that raised, each with
\* an error, and the combined document has a section for every other url.
C14_SectionForEveryOtherUrl ==
    cpc = "built" =>
        \A i \in DOMAIN c_urls :
            i \notin raisedAt =>
                Contains(combined, Header \o c_urls[i] \o <<"\n", "\n">>)

\* C14 amended: crawl does not raise, every url has a result, the results
\* with success=false are exactly those of the fetches that raised, each with
\* an error, and the combined document has the section of every other url
\* whose markdown is not empty; it is empty when there is no such url.
C14_PartialFailure ==
    /\ cpc # "raised"
    /\ CrawlReturned =>
          /\ DOMAIN c_results = DOMAIN c_urls
          /\ \A i \in DOMAIN c_results :
                /\ ~c_results[i].success <=> i \in raisedAt
                /\ i \in raisedAt => "error" \in DOMAIN c_results[i]
    /\ cpc = "built" =>
          /\ \A i \in DOMAIN c_results :
                i \notin raisedAt /\ c_results[i].markdown # <<>> =>
                    Contains(combined, Section(c_results[i]))
          /\ (\A i \in DOMAIN c_results :
                i \in raisedAt \/ c_results[i].markdown = <<>>)
                => combined = <<>>

\* C14 witness: of three urls the second raised, the first gave markdown and
\* the third gave none; the document is the first one's section alone
C14_Witness ==
    /\ cpc = "built"
    /\ Len(c_urls) = 3
    /\ raisedAt = {2}
    /\ c_results[1].markdown # <<>>
    /\ c_results[3].markdown = <<>>
    /\ combined = Section(c_results[1])

\* C15: at most maxWorkers fetches are in progress at any time, exactly
\* len(urls) fetches are dispatched, crawl returns only after each of them
\* has produced a result, and it does not return while a fetch hangs.
C15_BoundedBlockingFanOut ==
    /\ Cardinality(InProgress) <= MaxWorkers
    /\ dispatched <= Len(c_urls)
    /\ CrawlReturned =>
          /\ dispatched = Len(c_urls)
          /\ InProgress = {}
          /\ \A i \in DOMAIN c_urls : cres[i] # NoResult
    /\ (\E w \in 1..spawned : pw[w].hung) => cpc = "map"

\* C15 witness: two processes, three urls, one fetch hangs and the other two
\* have their results; crawl is still inside pool.map
C15_Witness ==
    /\ cpc = "map"
    /\ spawned = 2
    /\ Len(c_urls) = 3
    /\ \E w \in 1..spawned :
          /\ pw[w].hung
          /\ \A i \in DOMAIN cres : i # pw[w].running => cres[i] # NoResult

\* C16: no session is used by two fetches at once; a process holds a session
\* exactly while it is inside a fetch, so the session is closed before the
\* process takes another url.
C16_SessionIsolation ==
    /\ \A v \in InProgress : \A w \in InProgress :
          v # w => pw[v].session # pw[w].session
    /\ \A w \in 1..spawned : pw[w].session # 0 <=> pw[w].running # 0

\* C16 witness: two fetches are in progress, one of them on a process that
\* has completed a fetch before
C16_Witness ==
    /\ Cardinality(InProgress) = 2
    /\ dispatched = 3
    /\ \E i \in DOMAIN cres : cres[i] # NoResult

C18_EmptyList ==
    /\ [][cpc = "idle" /\ cpc' # "idle" /\ c_urls' = <<>> =>
              /\ cpc' = "returned"
              /\ c_results' = <<>>
              /\ spawned' = 0]_vars
    /\ [](c_urls = <<>> => spawned = 0 /\ dispatched = 0)

\* C18 witness: crawl([]) has returned on a crawler given max_processes
C18_Witness ==
    /\ cpc = "returned"
    /\ c_urls = <<>>
    /\ c_results = <<>>
    /\ max_processes # None
    /\ spawned = 0

\* chunk[overlap:]
DropFirst(chunk, overlap) == SubSeq(chunk, overlap + 1, Len(chunk))

\* the first chunk followed by every later chunk without its first `overlap`
\* characters
Reconstruct(chs, overlap) ==
    LET glued[i \in 0..Len(chs)] ==
            IF i = 0 THEN <<>>
            ELSE IF i = 1 THEN chs[1]
            ELSE glued[i - 1] \o DropFirst(chs[i], overlap)
    IN  glued[Len(chs)]

\* C19 as stated: for every text, chunk_size and overlap, the chunks of
\* _split_text, each after the first without its first `overlap` characters,
\* concatenate to the text.
C19_CoverageAnyOverlap ==
    spc = "done" => Reconstruct(chunks, chunk_overlap) = text

\* C19 amended: the same, for chunk_size >= 1 and an overlap that is below
\* chunk_size and at most chunk_size - chunk_size // 2 + 1, the least length
\* a paragraph break can cut a chunk to, less one.
C19_Coverage ==
    /\ spc = "done"
    /\ chunk_size >= 1
    /\ chunk_overlap < chunk_size
    /\ chunk_overlap <= chunk_size - chunk_size \div 2 + 1
    => Reconstruct(chunks, chunk_overlap) = text

\* C19 witness: a text cut at a break into chunks that overlap by two
\* characters, followed by the short chunks of the tail
C19_Witness ==
    /\ spc = "done"
    /\ chunk_size = 4
    /\ chunk_overlap = 2
    /\ Len(text) >= 7
    /\ Len(chunks) >= 4
    /\ Len(chunks[1]) # chunk_size
    /\ Reconstruct(chunks, chunk_overlap) = text

\* C20: _split_text terminates for every text, chunk_size and overlap,
\* overlap >= chunk_size included: start strictly increases on every loop
\* iteration, at most len(text) chunks are emitted, and the list is not
\* empty when the text is not.
C20_Termination ==
    /\ <>(spc = "done")
    /\ [][spc = "loop" => start' > start]_vars
    /\ [](Len(chunks) <= Len(text))
    /\ [](spc = "done" /\ text # <<>> => chunks # <<>>)

\* C20 witness: with overlap >= chunk_size the loop has run to the end of a
\* text, one character of progress at a time
C20_Witness ==
    /\ spc = "done"
    /\ chunk_size >= 1
    /\ chunk_overlap >= chunk_size
    /\ Len(text) > chunk_size
    /\ Len(chunks) = Len(text)
    /\ start = Len(text)

\* C21: the empty text yields the empty list for every chunk_size and
\* overlap, and a non-empty text no longer than chunk_size yields the
\* one-element list of the text itself, whatever the overlap; both without
\* entering the loop.
C21_DegenerateInputs ==
    /\ spc # "idle" /\ text = <<>> => spc = "done" /\ chunks = <<>>
    /\ spc # "idle" /\ text # <<>> /\ Len(text) <= chunk_size =>
          spc = "done" /\ chunks = <<text>>

\* C21 witness: a text exactly chunk_size long came back as one chunk with an
\* overlap that is not 0
C21_Witness ==
    /\ spc = "done"
    /\ Len(text) = chunk_size
    /\ Len(text) >= 2
    /\ chunk_overlap >= 1
    /\ chunks = <<text>>

\* create_combined_document has returned
DocumentBuilt == cpc \in {"built", "chunked"}

\* C22 as stated: the combined document is, in result order, one section
\* (header with the url, then the markdown) per result with success=true,
\* joined by the separator; no failed result has a section.
C22_SectionPerSuccess ==
    DocumentBuilt =>
        combined =
            LET tail[i \in 1..(Len(c_results) + 1)] ==
                    IF i > Len(c_results) THEN <<>>
                    ELSE IF c_results[i].success
                    THEN Header \o c_results[i].url \o <<"\n", "\n">>
                           \o c_results[i].markdown
                           \o (IF tail[i + 1] = <<>> THEN <<>>
                               ELSE Separator \o tail[i + 1])
                    ELSE tail[i + 1]
            IN  tail[1]

\* C22 amended: the same, with one section per result that has success=true
\* and a markdown that is not empty; a successful result with empty markdown
\* has no section, like a failed one.
C22_SectionPerContent ==
    DocumentBuilt =>
        combined =
            LET tail[i \in 1..(Len(c_results) + 1)] ==
                    IF i > Len(c_results) THEN <<>>
                    ELSE IF c_results[i].success /\ c_results[i].markdown # <<>>
                    THEN Header \o c_results[i].url \o <<"\n", "\n">>
                           \o c_results[i].markdown
                           \o (IF tail[i + 1] = <<>> THEN <<>>
                               ELSE Separator \o tail[i + 1])
                    ELSE tail[i + 1]
            IN  tail[1]

\* C22 witness: two successful results of different urls, both with markdown,
\* are joined by the separator, the first one first
C22_Witness ==
    /\ cpc = "built"
    /\ Len(c_results) = 2
    /\ c_results[1].url # c_results[2].url
    /\ c_results[1].success /\ c_results[1].markdown = <<"a", " ", "b">>
    /\ c_results[2].success /\ c_results[2].markdown = <<"m">>
    /\ combined = Section(c_results[1]) \o Separator \o Section(c_results[2])

\* C23 as stated: the chunk list is the flat concatenation, in result order,
\* of _split_text(markdown) over every result with success=true, each record
\* with that result's url and chunk_length = len(content).
C23_ChunksPerSuccess ==
    cpc = "chunked" =>
        chunk_list =
            LET tail[i \in 1..(Len(c_results) + 1)] ==
                    IF i > Len(c_results) THEN <<>>
                    ELSE IF c_results[i].success
                    THEN [k \in 1..Len(SplitText(c_results[i].markdown,
                                                 chunk_args[1], chunk_args[2]))
                            |-> [content |-> SplitText(c_results[i].markdown,
                                     chunk_args[1], chunk_args[2])[k],
                                 url |-> c_results[i].url,
                                 chunk_length |-> Len(SplitText(
                                     c_results[i].markdown,
                                     chunk_args[1], chunk_args[2])[k])]]
                         \o tail[i + 1]
                    ELSE tail[i + 1]
            IN  tail[1]

\* C23 amended: the same over every result with success=true whose markdown
\* is more than whitespace; a successful result with blank markdown has no
\* chunk.
C23_ChunksPerContent ==
    cpc = "chunked" =>
        /\ chunk_list =
            LET tail[i \in 1..(Len(c_results) + 1)] ==
                    IF i > Len(c_results) THEN <<>>
                    ELSE IF c_results[i].success /\ ~IsBlank(c_results[i].markdown)
                    THEN [k \in 1..Len(SplitText(c_results[i].markdown,
                                                 chunk_args[1], chunk_args[2]))
                            |-> [content |-> SplitText(c_results[i].markdown,
                                     chunk_args[1], chunk_args[2])[k],
                                 url |-> c_results[i].url,
                                 chunk_length |-> Len(SplitText(
                                     c_results[i].markdown,
                                     chunk_args[1], chunk_args[2])[k])]]
                         \o tail[i + 1]
                    ELSE tail[i + 1]
            IN  tail[1]
        /\ \A k \in 1..Len(chunk_list) :
              chunk_list[k].chunk_length = Len(chunk_list[k].content)

\* C23 witness: the three chunks of the first page, in document order, are
\* followed by the one chunk of the second page
C23_Witness ==
    /\ cpc = "chunked"
    /\ chunk_args = <<2, 1>>
    /\ Len(c_results) = 2
    /\ c_results[1].url # c_results[2].url
    /\ Len(chunk_list) = 4
    /\ chunk_list[1].content = <<"a", " ">>
    /\ chunk_list[3].content = <<"b">>
    /\ chunk_list[3].url = c_results[1].url
    /\ chunk_list[4].url = c_results[2].url

\* the number of results of crawl with success=true
Succeeded == Cardinality({ i \in DOMAIN c_results : c_results[i].success })

\* C24: what generate returns to its caller tells the number of urls
\* attempted and the number that succeeded, so that a run with failed urls
\* differs, for the caller, from a run with none.
C24_SummaryReturned ==
    generated.returned =>
        /\ "attempted" \in DOMAIN generated
        /\ "succeeded" \in DOMAIN generated
        /\ generated.attempted = Len(c_urls)
        /\ generated.succeeded = Succeeded

\* C25: a failed write of either artifact is not fatal: create_combined_document
\* still returns the whole document and create_chunks the whole chunk list,
\* the other artifact is still attempted, and generate returns the output
\* path without raising.
C25_WriteFailureNotFatal ==
    /\ [](cpc # "raised")
    /\ [][cpc = "returned" /\ cpc' # cpc =>
              cpc' = "built" /\ combined' = CombinedDocument(c_results)]_vars
    /\ [][cpc = "built" /\ cpc' # cpc =>
              /\ cpc' = "chunked"
              /\ chunk_list' = ChunkRecords(c_results, DefaultChunkSize,
                                            DefaultChunkOverlap)]_vars
    /\ [](generated.returned =>
              /\ generated.path = KnowledgeBasePath(base)
              /\ cpc = "chunked"
              /\ chunk_args # <<>>)
    /\ (cpc = "returned") ~> generated.returned

\* C25 witness: generate has returned although neither file could be written;
\* the document and the chunk list were computed all the same
C25_Witness ==
    /\ generated.returned
    /\ ~doc_file.exists
    /\ ~chunk_file.exists
    /\ combined # <<>>
    /\ chunk_list # <<>>

\* C26: no fetch starts before extract_doc_urls has returned and every
\* frontier worker has stopped, crawl is given exactly the urls that call
\* returned, and no artifact is written before every fetch has its result.
C26_StageOrdering ==
    /\ cpc # "idle" =>
          /\ mpc = "returned"
          /\ \A w \in Workers : wpc[w] = "done"
          /\ { c_urls[i] : i \in DOMAIN c_urls } = result
          /\ Len(c_urls) = Cardinality(result)
    /\ dispatched > 0 => cpc # "idle"
    /\ doc_file.exists \/ chunk_file.exists \/ chunk_args # <<>> =>
          /\ dispatched = Len(c_urls)
          /\ InProgress = {}
          /\ \A i \in DOMAIN c_urls : cres[i] # NoResult

\* C26 witness: two frontier workers found two urls, both were fetched by two
\* processes, and both artifacts are written
C26_Witness ==
    /\ concurrency = 2
    /\ Cardinality(result) = 2
    /\ spawned = 2
    /\ dispatched = 2
    /\ doc_file.exists
    /\ chunk_file.exists

\* the number of task_done calls the queue has counted
TaskDoneCalls == Len(putLog) - unfinished_tasks

\* C27: when link extraction fails for a url, the url stays in visited,
\* nothing is enqueued or added to doc_urls from it, its job is marked
\* complete, the worker goes on to the next get, and the url is not fetched
\* again in that call.
C27_FailureAbsorbed ==
    /\ [][calls' = calls /\ failed' # failed =>
              /\ \A u \in failed' \ failed : u \in visited_urls'
              /\ doc_urls' = doc_urls
              /\ queued_urls' = queued_urls
              /\ queue' = queue
              /\ putLog' = putLog
              /\ unfinished_tasks' = unfinished_tasks - 1
              /\ \E w \in Workers :
                    /\ wpc[w] = "fetch" /\ wjob[w][1] \in failed'
                    /\ wpc'[w] = "get" /\ wjob'[w] = NoJob]_vars
    /\ [](\A u \in failed :
              /\ u \in visited_urls
              /\ Cardinality({ i \in 1..Len(fetchLog) : fetchLog[i][1] = u }) = 1)

\* C27 witness: one worker failed on a page that other pages link to, went
\* on to fetch another page, and the call has returned
C27_Witness ==
    /\ concurrency = 1
    /\ mpc = "returned"
    /\ \E i \in 1..(Len(fetchLog) - 1) :
          /\ fetchLog[i][1] \in failed
          /\ \E p \in Pages \ failed :
                \E k \in 1..Len(web[p]) : Normalize(p, web[p][k]) = fetchLog[i][1]

\* C28: every dequeued job is marked complete exactly once: the number of
\* task_done calls never exceeds the number of completed gets, and equals
\* it whenever no worker is in the middle of a job.
C28_TaskDoneOncePerGet ==
    /\ TaskDoneCalls = dones
    /\ TaskDoneCalls <= gets
    /\ TaskDoneCalls = gets - Cardinality({ w \in Workers : wjob[w] # NoJob })
    /\ (\A w \in Workers : wpc[w] # "fetch") => TaskDoneCalls = gets

\* C28 witness: three jobs were dequeued, one failed and one succeeded, and
\* all three are marked complete while a worker waits in get
C28_Witness ==
    /\ gets = 3
    /\ TaskDoneCalls = 3
    /\ failed # {}
    /\ Cardinality(failed) < 3
    /\ \E w \in Workers : wpc[w] = "get"

\* some url was handed to _fetch_links twice in the running call
FetchedTwice == ~NoDuplicateUrl(fetchLog)

\* some url was put on the queue twice in the running call
EnqueuedTwice == ~NoDuplicateUrl(putLog)

\* C29: while a task can be switched out only at an await, so that each
\* membership test and its insert run as one step, no url is enqueued
\* twice and none is fetched twice; the scheduler that may switch between
\* test and insert is the only one under which such a state exists.
C29_AtomicityKeepsDedup ==
    (EnqueuedTwice \/ FetchedTwice) => preemptive

\* under the preemptive scheduler one url has been enqueued twice and
\* fetched twice
C29_Witness == preemptive /\ EnqueuedTwice /\ FetchedTwice

\* the positions p of the text where a paragraph break lies within
\* [cand - chunk_size/2, cand + chunk_size/2)
ParagraphBreaks(cand) ==
    { p \in 0..Len(text) :
        /\ cand - chunk_size \div 2 <= p
        /\ p + 2 <= cand + chunk_size \div 2
        /\ p + 2 <= Len(text)
        /\ text[p + 1] = "\n"
        /\ text[p + 2] = "\n" }

\* the positions where a sentence break ". " lies within
\* [cand - chunk_size/4, cand + chunk_size/4)
SentenceBreaks(cand) ==
    { p \in 0..Len(text) :
        /\ cand - chunk_size \div 4 <= p
        /\ p + 2 <= cand + chunk_size \div 4
        /\ p + 2 <= Len(text)
        /\ text[p + 1] = "."
        /\ text[p + 2] = " " }

\* the positions of a space among the chunk_size/8 characters before cand
SpacesBefore(cand) ==
    { p \in 0..(Len(text) - 1) :
        /\ cand - chunk_size \div 8 <= p
        /\ p < cand
        /\ text[p + 1] = " " }

\* where the chunk cut at candidate end cand has to end
EndsByPriority(cand, end) ==
    IF cand >= Len(text) THEN end = Len(text)
    ELSE IF ParagraphBreaks(cand) # {}
    THEN /\ end - 2 \in ParagraphBreaks(cand)
         /\ \A p \in ParagraphBreaks(cand) : end - 2 <= p
    ELSE IF SentenceBreaks(cand) # {}
    THEN /\ end - 2 \in SentenceBreaks(cand)
         /\ \A p \in SentenceBreaks(cand) : end - 2 <= p
    ELSE IF SpacesBefore(cand) # {}
    THEN /\ end - 1 \in SpacesBefore(cand)
         /\ \A p \in SpacesBefore(cand) : p <= end - 1
    ELSE end = cand

\* the chunk the step appends is text[start:end] for the end given
ChunkCutAt(end) ==
    /\ start <= end
    /\ end <= Len(text)
    /\ chunks' = Append(chunks, SubSeq(text, start + 1, end))

\* C30: every iteration of the loop cuts its chunk just after the first
\* paragraph break of the paragraph window if there is one, else just after
\* the first sentence break of the sentence window, else just after the
\* last space of the chunk_size/8 characters before the candidate, else at
\* the candidate; a candidate at or past the end of the text cuts at the
\* end of the text.
C30_BoundaryPriority ==
    [][spc = "loop" /\ chunks' # chunks =>
          \E end \in 0..Len(text) :
              /\ ChunkCutAt(end)
              /\ EndsByPriority(start + chunk_size, end)]_vars

\* the first chunk of a text with no paragraph and no sentence break in
\* reach was cut after a space, short of the candidate
C30_Witness ==
    /\ Len(chunks) >= 1
    /\ chunk_size < Len(text)
    /\ ParagraphBreaks(chunk_size) = {}
    /\ SentenceBreaks(chunk_size) = {}
    /\ SpacesBefore(chunk_size) # {}
    /\ Len(chunks[1]) < chunk_size

\* the end of the chunk the step appends: it is text[start:end]
StepEnd == start + Len(chunks'[Len(chunks')])

\* C31: after text[start:end] is emitted the next start is end - overlap
\* when that lies after start, and the next chunk then reaches at least to
\* end, so that the two share exactly `overlap` characters; otherwise the
\* next start is start + 1; and the loop stops exactly when the new start
\* is at or past the end of the text.
C31_AdvanceRule ==
    [][spc = "loop" /\ chunks' # chunks =>
          /\ StepEnd - chunk_overlap > start =>
                /\ start' = StepEnd - chunk_overlap
                /\ start' < Len(text) =>
                       ChunkEnd(text, start', chunk_size) >= StepEnd
          /\ StepEnd - chunk_overlap <= start => start' = start + 1
          /\ spc' = "done" <=> start' >= Len(text)]_vars

\* the loop goes on after a first chunk whose successor starts `overlap`
\* characters before its end
C31_Witness ==
    /\ spc = "loop"
    /\ Len(chunks) = 1
    /\ chunk_overlap >= 1
    /\ start = Len(chunks[1]) - chunk_overlap

\* the urls of a log of jobs
UrlsOf(log) == { log[i][1] : i \in 1..Len(log) }

\* C32: when extract_doc_urls has returned, visited equals queued, the
\* queue is empty and no job is outstanding; every url enqueued in the
\* call was dequeued once and visited once.
C32_DrainedAtReturn ==
    mpc = "returned" =>
        /\ visited_urls = queued_urls
        /\ queue = <<>>
        /\ unfinished_tasks = 0
        /\ \A w \in Workers : wjob[w] = NoJob
        /\ UrlsOf(putLog) = queued_urls
        /\ UrlsOf(fetchLog) = visited_urls
        /\ gets = Len(putLog)
        /\ Len(fetchLog) = Len(putLog)
        /\ NoDuplicateUrl(putLog)
        /\ NoDuplicateUrl(fetchLog)

\* a call that enqueued links beyond the seed has returned
C32_Witness ==
    /\ mpc = "returned"
    /\ Len(putLog) >= 3
    /\ visited_urls = queued_urls

\* the longest link path worth following from the seed
MaxLevel == Cardinality(DOMAIN web) + 1

\* Within[k]: the urls a link path of fewer than k links leads to from the
\* seed of the running call
Within ==
    [k \in 1..MaxLevel |->
        LET lv[i \in 1..k] ==
                IF i = 1 THEN {base}
                ELSE lv[i - 1] \cup
                     UNION { Resolved(PageLinks(p), p) : p \in lv[i - 1] }
        IN  lv[k]]

\* the breadth-first depth of a url the seed leads to: the seed has depth 1
BfsDepth(u) ==
    CHOOSE k \in 1..MaxLevel :
        /\ u \in Within[k]
        /\ \A i \in 1..(k - 1) : u \notin Within[i]

\* every put of the call so far carries the breadth-first depth of its url
PutsAtBfsDepth ==
    \A i \in 1..Len(putLog) : putLog[i][2] = BfsDepth(putLog[i][1])

\* C33 as stated: when no extraction fails, every url is enqueued at its
\* breadth-first depth from the seed, for every concurrency >= 1 and every
\* interleaving of the workers.
C33_BfsDepthAnyConcurrency ==
    (mpc # "idle" /\ failed = {}) => PutsAtBfsDepth

\* one worker, no failure: every url is enqueued at its breadth-first depth
C33_BfsDepthOneWorker ==
    (mpc # "idle" /\ failed = {} /\ concurrency = 1) => PutsAtBfsDepth

\* two workers, no failure: a url the seed reaches in two links was
\* enqueued at depth 4
C33_LateDepth ==
    /\ concurrency = 2
    /\ failed = {}
    /\ mpc = "returned"
    /\ \E i \in 1..Len(putLog) :
          /\ putLog[i] = <<UF, 4>>
          /\ BfsDepth(UF) = 3

\* the pages a breadth-first traversal from the seed processes: the seed,
\* and every url whose breadth-first depth is at most max_depth
BfsProcessed == IF max_depth <= 1 THEN {base} ELSE Within[Min(max_depth, MaxLevel)]

\* the set a sequential breadth-first traversal returns: the links of the
\* processed pages that hold "doc"
BfsResult ==
    { l \in UNION { Resolved(PageLinks(p), p) : p \in BfsProcessed } :
        IsDocUrl(l) }

\* C34 as stated: when no extraction fails, the set extract_doc_urls
\* returns is the one a sequential breadth-first traversal returns, for
\* every concurrency >= 1 and every interleaving of the workers.
C34_ScheduleIndependent ==
    (mpc = "returned" /\ failed = {}) => result = BfsResult

\* one worker, no failure: the returned set is the breadth-first one
C34_OneWorkerIsBfs ==
    (mpc = "returned" /\ failed = {} /\ concurrency = 1) => result = BfsResult

\* two workers, no failure: a documentation url the breadth-first
\* traversal returns is missing from the returned set
C34_MissedUrl ==
    /\ concurrency = 2
    /\ failed = {}
    /\ mpc = "returned"
    /\ UN \in BfsResult
    /\ UN \notin result

\* C35: with concurrency = 0 no worker exists, the seed job stays on the
\* queue, never dequeued and never marked complete, and a started
\* extract_doc_urls stays at queue.join(): it neither returns nor raises.
C35_ZeroConcurrencyBlocks ==
    concurrency = 0 =>
        /\ mpc \in {"idle", "join"}
        /\ mpc = "join" =>
              /\ \A w \in DOMAIN wpc : wpc[w] = "none"
              /\ queue = <<<<base, SeedDepth>>>>
              /\ unfinished_tasks = 1
              /\ ~JoinReady
              /\ gets = 0
              /\ dones = 0
              /\ visited_urls = {}
              /\ result = {}

\* a call with concurrency = 0 waits in queue.join()
C35_Witness ==
    /\ concurrency = 0
    /\ mpc = "join"
    /\ calls = 1
    /\ Len(queue) = 1

\* the step appends the non-empty slice text[start:end], the next start
\* is not past end, and the slice that ends the loop reaches the end of
\* the text
GapFreeStep(end) ==
    /\ chunks' = Append(chunks, SubSeq(text, start + 1, end))
    /\ start' <= end
    /\ spc' = "done" => end = Len(text)

\* C36: for a non-empty text and chunk_size >= 1 every chunk is a non-empty
\* slice text[s:e]; the first starts at 0, each later one starts at or
\* before the end of the one before it, and the last one ends at
\* len(text); a text that fits one chunk is returned whole.
C36_GapFree ==
    /\ [][spc = "loop" /\ chunks' # chunks /\ chunk_size >= 1 =>
             /\ chunks = <<>> => start = 0
             /\ \E end \in (start + 1)..Len(text) : GapFreeStep(end)]_vars
    /\ [][spc = "idle" /\ spc' = "done" /\ text # <<>> /\ chunk_size >= 1 =>
             chunks' = <<text>>]_vars

\* a split into three chunks or more, with overlap, has finished
C36_Witness ==
    /\ spc = "done"
    /\ chunk_size >= 1
    /\ chunk_overlap >= 1
    /\ Len(chunks) >= 3
    /\ \A k \in 1..Len(chunks) : chunks[k] # <<>>

\* C37 as stated: for a text longer than chunk_size and 0 <= overlap <
\* chunk_size the ends of the chunks are strictly increasing: the chunk
\* that follows the one just emitted ends after it, so only one chunk ends
\* at len(text).
C37_NoRedundantTail ==
    [][(/\ spc = "loop"
        /\ spc' = "loop"
        /\ chunks' # chunks
        /\ Len(text) > chunk_size
        /\ chunk_overlap < chunk_size)
          => ChunkEnd(text, start', chunk_size) > StepEnd]_vars

\* a finished split, with overlap < chunk_size, whose last two chunks both
\* end at len(text): the last is a suffix of the one before it
C37_RedundantTail ==
    /\ spc = "done"
    /\ chunk_overlap < chunk_size
    /\ Len(text) > chunk_size
    /\ Len(chunks) >= 2
    /\ Len(chunks[Len(chunks)]) < Len(chunks[Len(chunks) - 1])
    /\ chunks[Len(chunks) - 1] =
           SubSeq(text, Len(text) - Len(chunks[Len(chunks) - 1]) + 1, Len(text))

\* C38: for a text longer than chunk_size >= 1 every chunk has at least
\* one character and at most chunk_size + chunk_size // 2: a paragraph
\* break found after the candidate end lengthens a chunk up to that bound
\* and never beyond it.
C38_ChunkSizeBound ==
    (chunk_size >= 1 /\ Len(text) > chunk_size) =>
        \A k \in 1..Len(chunks) :
            /\ Len(chunks[k]) >= 1
            /\ Len(chunks[k]) <= chunk_size + chunk_size \div 2

\* a chunk as long as the bound allows, longer than chunk_size
C38_Witness ==
    /\ chunk_size >= 2
    /\ Len(text) > chunk_size
    /\ \E k \in 1..Len(chunks) :
          Len(chunks[k]) = chunk_size + chunk_size \div 2

\* C39: the i-th result crawl returns is the one of urls[i], in whatever
\* order the worker processes finished their fetches; while pool.map
\* collects, every result it holds sits at the index of its url.
C39_ResultsInInputOrder ==
    /\ \A i \in DOMAIN cres : cres[i] # NoResult => cres[i].url = c_urls[i]
    /\ CrawlReturned =>
          /\ Len(c_results) = Len(c_urls)
          /\ \A i \in DOMAIN c_urls : c_results[i].url = c_urls[i]

\* crawl has returned a list of different urls whose fetches did not end
\* in input order
C39_Witness ==
    /\ cpc = "returned"
    /\ overtaken
    /\ Len(c_urls) >= 2
    /\ c_urls[1] # c_urls[2]
    /\ c_results[1].url = c_urls[1]

====
